---- MODULE Spec2Model ----
(***************************************************************************)
(* pk2 archive index: BlockManager (src/src/archive/block_manager.rs).     *)
(* The chain loader (BlockManager::new, read_chain_from_file_at) is a      *)
(* state machine over an archive file; the three path resolver methods are *)
(* operators applied to the index the loader returned.                     *)
(***************************************************************************)
EXTENDS Integers, Sequences, FiniteSets, TLC

\* crate::constants (imported at block_manager.rs:8)
PK2_ROOT_BLOCK == 256
PK2_FILE_BLOCK_SIZE == 2560

\* Bounds of the model.
MaxPathLen == 3
MaxPending == 5
MaxChainLen == 3
MaxReaderPathLen == 2

VARIABLES
    file,       \* the byte source seen through cipher and decoder: offset -> block or fault
    pc,         \* position of BlockManager::new: "loop", "read", "scan", "done"
    offsets,    \* the worklist Vec<u64> of new
    chains,     \* the local HashMap<u64, PackBlockChain> of new
    offset,     \* the offset popped at line 20
    roff,       \* the mutable offset of read_chain_from_file_at
    blocks,     \* the Vec<PackBlock> of read_chain_from_file_at
    result,     \* what new returned: "Pending", "Ok", "IoFailure", "FormatError"
    manager,    \* Option of the returned BlockManager.chains: <<>> or <<index>>
    query,      \* the last resolver call and its result
    readers     \* concurrent readers: each one's call in progress, step by step

vars == <<file, pc, offsets, chains, offset, roff, blocks, result, manager, query, readers>>

-----------------------------------------------------------------------------
\* Entries, blocks, files

Empty == [type |-> "Empty"]
File(n) == [type |-> "File", name |-> n]
Directory(n, p) == [type |-> "Directory", name |-> n, pos_children |-> p]

\* A block that is read and parsed: the status decrypt_nopad returns for it,
\* its entries and the next_chain of its last slot (0 = None).
Blk(es, nx) == [kind |-> "block", cipher |-> "Ok", entries |-> es, next |-> nx]
IoFault == [kind |-> "ioerr"]
FormatFault == [kind |-> "badfmt"]

\* The n-th block slot of the file.
Off(i) == PK2_ROOT_BLOCK + i * PK2_FILE_BLOCK_SIZE

\* An offset past the end of every modelled file.
Beyond == Off(9)

Names == {".", "..", "a", "b", "c"}

\* A well-formed archive:   /            (two blocks: Off(0) -> Off(1))
\*                          /a/          Off(2)
\*                          /a/b/        Off(4)   with file /a/b/a
\*                          /b/          Off(3)   with file /b/a
\*                          /b           a file entry shadowed by the directory /b
BaseArchive ==
    (Off(0) :> Blk(<<Directory(".", Off(0)), Directory("a", Off(2))>>, Off(1)))
 @@ (Off(1) :> Blk(<<Directory("b", Off(3)), File("b")>>, 0))
 @@ (Off(2) :> Blk(<<Directory(".", Off(2)), Directory("..", Off(0)),
                     Directory("b", Off(4))>>, 0))
 @@ (Off(3) :> Blk(<<Directory(".", Off(3)), Directory("..", Off(0)),
                     Empty, File("a")>>, 0))
 @@ (Off(4) :> Blk(<<Directory(".", Off(4)), Directory("..", Off(2)),
                     File("a")>>, 0))

\* Entries a slot of the base archive may hold instead.
MutEntries ==
    { Empty, File("a"), File("b"),
      Directory("a", Off(0)), Directory("b", Off(3)), Directory("b", Beyond),
      Directory("c", Off(4)), Directory("..", Beyond), Directory(".", Off(1)) }

\* Continuation pointers a block of the base archive may hold instead.
MutNext == {0, Off(0), Off(1), Off(3), Beyond}

\* The archives the model opens: the base archive and every archive that
\* differs from it in one slot, one continuation pointer, one faulty block or
\* one block for which the cipher reports an error.
Archives ==
    {BaseArchive}
    \cup { [BaseArchive EXCEPT ![o] = f] :
             o \in DOMAIN BaseArchive, f \in {IoFault, FormatFault} }
    \cup { [BaseArchive EXCEPT ![o].cipher = "Err"] : o \in DOMAIN BaseArchive }
    \cup { [BaseArchive EXCEPT ![o].next = nx] :
             o \in DOMAIN BaseArchive, nx \in MutNext }
    \cup UNION { { [BaseArchive EXCEPT ![o].entries[i] = e] :
                     i \in 1..Len(BaseArchive[o].entries), e \in MutEntries } :
                 o \in DOMAIN BaseArchive }

\* r.seek + r.read_exact + decrypt + PackBlock::from_reader at offset o.
ReadAt(f, o) == IF o \in DOMAIN f THEN f[o] ELSE IoFault

-----------------------------------------------------------------------------
\* Chains

\* PackBlockChain::iter: the entries of all blocks, in block and slot order.
RECURSIVE ChainEntries(_)
ChainEntries(chain) ==
    IF chain = <<>> THEN <<>>
    ELSE Head(chain).entries \o ChainEntries(Tail(chain))

\* The offsets lines 22-33 push for one chain, in push order.
RECURSIVE DirChildren(_)
DirChildren(es) ==
    IF es = <<>> THEN <<>>
    ELSE LET e == Head(es)
             rest == DirChildren(Tail(es))
         IN IF e.type = "Directory" /\ e.name # "." /\ e.name # ".."
            THEN <<e.pos_children>> \o rest
            ELSE rest

\* Variant: a chain inserted under a key already present is appended to the
\* chain stored there.
Insert_Appends(m, k, v) ==
    [x \in DOMAIN m \cup {k} |->
        IF x = k THEN (IF k \in DOMAIN m THEN m[k] \o v ELSE v) ELSE m[x]]

\* HashMap::insert
Insert(m, k, v) == [x \in DOMAIN m \cup {k} |-> IF x = k THEN v ELSE m[x]]

NoQuery == [op |-> "none"]

\* The concurrent readers and what each is before its first call.
Readers == {"r1", "r2"}
IdleReader == [phase |-> "idle"]

-----------------------------------------------------------------------------
\* Paths

\* Sequences over S of length at most n.
SeqsUpTo(S, n) == UNION { [1..k -> S] : k \in 0..n }

\* The paths callers pass, as their '/'-separated segments.
RawPaths == SeqsUpTo(Names, MaxPathLen)

\* std Path::components: a "." segment is a component (CurDir) only when it
\* is the first segment of the path; elsewhere it is skipped.
RECURSIVE DropCurDir(_)
DropCurDir(segs) ==
    IF segs = <<>> THEN <<>>
    ELSE IF Head(segs) = "." THEN DropCurDir(Tail(segs))
    ELSE <<Head(segs)>> \o DropCurDir(Tail(segs))

Components(segs) ==
    IF segs = <<>> THEN <<>>
    ELSE <<Head(segs)>> \o DropCurDir(Tail(segs))

\* The component sequences of the paths callers pass.
ComponentPaths == { Components(raw) : raw \in RawPaths }

Front(s) == SubSeq(s, 1, Len(s) - 1)
Last(s) == s[Len(s)]

-----------------------------------------------------------------------------
\* Results.  looked: the keys the call indexed self.chains with.

OkChain(c, l) == [tag |-> "Ok", chain |-> c, looked |-> l]
ErrOf(k, n, l) == [tag |-> "Err", kind |-> k, name |-> n, looked |-> l]
Panic(l) == [tag |-> "Panic", looked |-> l]

\* Variant: the last entry named n (rfind).
FindNamed_Last(es, n) ==
    LET hits == { i \in 1..Len(es) : es[i].type # "Empty" /\ es[i].name = n }
    IN IF hits = {} THEN 0
       ELSE CHOOSE i \in hits : \A j \in hits : i >= j

\* Index of the first entry of es named n, 0 when there is none
\* (Iterator::find with entry.name() == Some(n)).
FindNamed(es, n) ==
    LET hits == { i \in 1..Len(es) : es[i].type # "Empty" /\ es[i].name = n }
    IN IF hits = {} THEN 0
       ELSE CHOOSE i \in hits : \A j \in hits : i <= j

\* PackBlockChain::find_block_chain_index_in
find_block_chain_index_in(chain, n, l) ==
    LET es == ChainEntries(chain)
        i == FindNamed(es, n)
    IN IF i = 0 THEN ErrOf("NotFound", n, l)
       ELSE IF es[i].type = "Directory" THEN OkChain(es[i].pos_children, l)
       ELSE ErrOf("NotADirectory", n, l)

\* resolve_path_to_block_chain_index_at, lines 85-93: try_fold from idx
RECURSIVE TryFold(_, _, _, _)
TryFold(index, idx, comps, l) ==
    IF comps = <<>> THEN OkChain(idx, l)
    ELSE IF idx \notin DOMAIN index THEN Panic(l \cup {idx})
    ELSE LET r == find_block_chain_index_in(index[idx], Head(comps), l \cup {idx})
         IN IF r.tag = "Ok" THEN TryFold(index, r.chain, Tail(comps), r.looked)
            ELSE r

RECURSIVE Reverse(_)
Reverse(s) == IF s = <<>> THEN <<>> ELSE Reverse(Tail(s)) \o <<Head(s)>>

\* Variant: the components folded from the back (try_rfold).
resolve_path_to_block_chain_index_at_Rfold(index, current_chain, comps) ==
    TryFold(index, current_chain, Reverse(comps), {})

resolve_path_to_block_chain_index_at(index, current_chain, comps) ==
    TryFold(index, current_chain, comps, {})

\* Variant: a missing leaf is reported as Ok(None).
resolve_path_to_entry_and_parent_NoneOnMissing(index, current_chain, comps) ==
    IF comps = <<>> THEN [tag |-> "Ok", value |-> <<>>, looked |-> {}]
    ELSE LET name == Last(comps)
             r == resolve_path_to_block_chain_index_at(index, current_chain, Front(comps))
         IN IF r.tag # "Ok" THEN r
            ELSE IF r.chain \notin DOMAIN index THEN Panic(r.looked \cup {r.chain})
            ELSE LET parent == index[r.chain]
                     es == ChainEntries(parent)
                     i == FindNamed(es, name)
                     l == r.looked \cup {r.chain}
                 IN IF i = 0 THEN [tag |-> "Ok", value |-> <<>>, looked |-> l]
                    ELSE [tag |-> "Ok",
                          value |-> << [parent |-> parent, entry |-> es[i]] >>,
                          looked |-> l]

\* Variant: the start chain is fetched before the path is examined.
resolve_path_to_entry_and_parent_LooksFirst(index, current_chain, comps) ==
    IF current_chain \notin DOMAIN index THEN Panic({current_chain})
    ELSE IF comps = <<>>
    THEN [tag |-> "Ok", value |-> <<>>, looked |-> {current_chain}]
    ELSE LET name == Last(comps)
             r == resolve_path_to_block_chain_index_at(index, current_chain, Front(comps))
         IN IF r.tag # "Ok" THEN r
            ELSE IF r.chain \notin DOMAIN index THEN Panic(r.looked \cup {r.chain})
            ELSE LET parent == index[r.chain]
                     es == ChainEntries(parent)
                     i == FindNamed(es, name)
                     l == r.looked \cup {r.chain}
                 IN IF i = 0 THEN ErrOf("NotFound", name, l)
                    ELSE [tag |-> "Ok",
                          value |-> << [parent |-> parent, entry |-> es[i]] >>,
                          looked |-> l]

\* resolve_path_to_entry_and_parent, lines 64-82
resolve_path_to_entry_and_parent(index, current_chain, comps) ==
    IF comps = <<>> THEN [tag |-> "Ok", value |-> <<>>, looked |-> {}]
    ELSE LET name == Last(comps)
             r == resolve_path_to_block_chain_index_at(index, current_chain, Front(comps))
         IN IF r.tag # "Ok" THEN r
            ELSE IF r.chain \notin DOMAIN index THEN Panic(r.looked \cup {r.chain})
            ELSE LET parent == index[r.chain]
                     es == ChainEntries(parent)
                     i == FindNamed(es, name)
                     l == r.looked \cup {r.chain}
                 IN IF i = 0 THEN ErrOf("NotFound", name, l)
                    ELSE [tag |-> "Ok",
                          value |-> << [parent |-> parent, entry |-> es[i]] >>,
                          looked |-> l]

\* Variant: every lookup error ends the walk with a remainder.
RECURSIVE Walk_AnyErrorBreaks(_, _, _, _, _)
Walk_AnyErrorBreaks(index, chain, comps, n, l) ==
    IF comps = <<>> THEN [tag |-> "Ok", chain |-> chain, n |-> n, looked |-> l]
    ELSE IF chain \notin DOMAIN index THEN Panic(l \cup {chain})
    ELSE LET r == find_block_chain_index_in(index[chain], Head(comps), l \cup {chain})
         IN IF r.tag = "Ok"
            THEN Walk_AnyErrorBreaks(index, r.chain, Tail(comps), n + 1, r.looked)
            ELSE IF Head(comps) = ".." /\ r.kind = "NotFound"
                 THEN ErrOf("PermissionDenied", "..", r.looked)
                 ELSE [tag |-> "Ok", chain |-> chain, n |-> n, looked |-> r.looked]

\* Variant: ".." is refused only as the first component of the path.
RECURSIVE Walk_DeniedOnlyFirst(_, _, _, _, _)
Walk_DeniedOnlyFirst(index, chain, comps, n, l) ==
    IF comps = <<>> THEN [tag |-> "Ok", chain |-> chain, n |-> n, looked |-> l]
    ELSE IF chain \notin DOMAIN index THEN Panic(l \cup {chain})
    ELSE LET r == find_block_chain_index_in(index[chain], Head(comps), l \cup {chain})
         IN IF r.tag = "Ok"
            THEN Walk_DeniedOnlyFirst(index, r.chain, Tail(comps), n + 1, r.looked)
            ELSE IF r.kind = "NotFound"
                 THEN IF Head(comps) = ".." /\ n = 0
                      THEN ErrOf("PermissionDenied", "..", r.looked)
                      ELSE [tag |-> "Ok", chain |-> chain, n |-> n, looked |-> r.looked]
            ELSE r

\* the for loop of validate_dir_path_until, lines 104-127
RECURSIVE Walk(_, _, _, _, _)
Walk(index, chain, comps, n, l) ==
    IF comps = <<>> THEN [tag |-> "Ok", chain |-> chain, n |-> n, looked |-> l]
    ELSE IF chain \notin DOMAIN index THEN Panic(l \cup {chain})
    ELSE LET r == find_block_chain_index_in(index[chain], Head(comps), l \cup {chain})
         IN IF r.tag = "Ok" THEN Walk(index, r.chain, Tail(comps), n + 1, r.looked)
            ELSE IF r.kind = "NotFound"
                 THEN IF Head(comps) = ".."
                      THEN ErrOf("PermissionDenied", "..", r.looked)
                      ELSE [tag |-> "Ok", chain |-> chain, n |-> n, looked |-> r.looked]
            ELSE r

\* components.by_ref().take(n).next(), line 130: what is left of components
TakeNext(comps, n) ==
    IF n > 0 /\ comps # <<>> THEN Tail(comps) ELSE comps

\* validate_dir_path_until, lines 97-132
validate_dir_path_until(index, chain, comps) ==
    LET w == Walk(index, chain, comps, 0, {})
    IN IF w.tag # "Ok" THEN w
       ELSE [tag |-> "Ok", chain |-> w.chain, rest |-> TakeNext(comps, w.n),
             looked |-> w.looked]

-----------------------------------------------------------------------------
\* BlockManager::new

Init ==
    /\ file \in Archives
    /\ pc = "loop"
    /\ offsets = <<PK2_ROOT_BLOCK>>
    /\ chains = <<>>
    /\ offset = 0
    /\ roff = 0
    /\ blocks = <<>>
    /\ result = "Pending"
    /\ manager = <<>>
    /\ query = NoQuery
    /\ readers = [r \in Readers |-> IdleReader]

\* line 20, Some(offset): pop the last pending offset and start reading its chain
PopOffset ==
    /\ pc = "loop"
    /\ offsets # <<>>
    /\ offset' = offsets[Len(offsets)]
    /\ offsets' = SubSeq(offsets, 1, Len(offsets) - 1)
    /\ roff' = offsets[Len(offsets)]
    /\ blocks' = <<>>
    /\ pc' = "read"
    /\ UNCHANGED <<file, chains, result, manager, query, readers>>

\* Variant: a failed read returns the chains gathered so far.
ReadBlock_ReturnsPartial ==
    /\ pc = "read"
    /\ Len(blocks) < MaxChainLen
    /\ LET b == ReadAt(file, roff) IN
       CASE b.kind = "ioerr" ->
              /\ result' = "IoFailure"
              /\ manager' = <<chains>>
              /\ pc' = "done"
              /\ UNCHANGED <<roff, blocks>>
         [] b.kind = "badfmt" ->
              /\ result' = "FormatError"
              /\ manager' = <<chains>>
              /\ pc' = "done"
              /\ UNCHANGED <<roff, blocks>>
         [] b.kind = "block" ->
              /\ blocks' = Append(blocks, [offset |-> roff, entries |-> b.entries,
                                           next |-> b.next])
              /\ IF b.next # 0
                 THEN roff' = b.next /\ pc' = "read"
                 ELSE roff' = roff /\ pc' = "scan"
              /\ UNCHANGED <<result, manager>>
    /\ UNCHANGED <<file, offsets, chains, offset, query, readers>>

\* Variant: a continuation block that cannot be read or parsed ends the chain.
ReadBlock_FaultEndsChain ==
    /\ pc = "read"
    /\ Len(blocks) < MaxChainLen
    /\ LET b == ReadAt(file, roff) IN
       CASE b.kind = "ioerr" ->
              /\ IF blocks # <<>>
                 THEN result' = result /\ pc' = "scan"
                 ELSE result' = "IoFailure" /\ pc' = "done"
              /\ UNCHANGED <<roff, blocks>>
         [] b.kind = "badfmt" ->
              /\ IF blocks # <<>>
                 THEN result' = result /\ pc' = "scan"
                 ELSE result' = "FormatError" /\ pc' = "done"
              /\ UNCHANGED <<roff, blocks>>
         [] b.kind = "block" ->
              /\ blocks' = Append(blocks, [offset |-> roff, entries |-> b.entries,
                                           next |-> b.next])
              /\ IF b.next # 0
                 THEN roff' = b.next /\ pc' = "read"
                 ELSE roff' = roff /\ pc' = "scan"
              /\ result' = result
    /\ UNCHANGED <<file, offsets, chains, offset, manager, query, readers>>

\* Variant: the continuation pointer is not followed.
ReadBlock_FirstBlockOnly ==
    /\ pc = "read"
    /\ Len(blocks) < MaxChainLen
    /\ LET b == ReadAt(file, roff) IN
       CASE b.kind = "ioerr" ->
              /\ result' = "IoFailure"
              /\ pc' = "done"
              /\ UNCHANGED <<roff, blocks>>
         [] b.kind = "badfmt" ->
              /\ result' = "FormatError"
              /\ pc' = "done"
              /\ UNCHANGED <<roff, blocks>>
         [] b.kind = "block" ->
              /\ blocks' = Append(blocks, [offset |-> roff, entries |-> b.entries,
                                           next |-> b.next])
              /\ roff' = roff
              /\ pc' = "scan"
              /\ result' = result
    /\ UNCHANGED <<file, offsets, chains, offset, manager, query, readers>>

\* Variant: a failure is recorded but the worklist loop goes on.
ReadBlock_KeepsGoing ==
    /\ pc = "read"
    /\ Len(blocks) < MaxChainLen
    /\ LET b == ReadAt(file, roff) IN
       CASE b.kind = "ioerr" ->
              /\ result' = "IoFailure"
              /\ pc' = "loop"
              /\ UNCHANGED <<roff, blocks>>
         [] b.kind = "badfmt" ->
              /\ result' = "FormatError"
              /\ pc' = "loop"
              /\ UNCHANGED <<roff, blocks>>
         [] b.kind = "block" ->
              /\ blocks' = Append(blocks, [offset |-> roff, entries |-> b.entries,
                                           next |-> b.next])
              /\ IF b.next # 0
                 THEN roff' = b.next /\ pc' = "read"
                 ELSE roff' = roff /\ pc' = "scan"
              /\ result' = result
    /\ UNCHANGED <<file, offsets, chains, offset, manager, query, readers>>

\* Variant: an error of the cipher is returned (decrypt_nopad(..)?).
ReadBlock_ChecksCipher ==
    /\ pc = "read"
    /\ Len(blocks) < MaxChainLen
    /\ LET b == ReadAt(file, roff) IN
       CASE b.kind = "ioerr" ->
              /\ result' = "IoFailure"
              /\ pc' = "done"
              /\ UNCHANGED <<roff, blocks>>
         [] b.kind = "badfmt" ->
              /\ result' = "FormatError"
              /\ pc' = "done"
              /\ UNCHANGED <<roff, blocks>>
         [] b.kind = "block" /\ b.cipher = "Err" ->
              /\ result' = "IoFailure"
              /\ pc' = "done"
              /\ UNCHANGED <<roff, blocks>>
         [] b.kind = "block" /\ b.cipher # "Err" ->
              /\ blocks' = Append(blocks, [offset |-> roff, entries |-> b.entries,
                                           next |-> b.next])
              /\ IF b.next # 0
                 THEN roff' = b.next /\ pc' = "read"
                 ELSE roff' = roff /\ pc' = "scan"
              /\ result' = result
    /\ UNCHANGED <<file, offsets, chains, offset, manager, query, readers>>

\* one iteration of the loop of read_chain_from_file_at, lines 48-58
ReadBlock ==
    /\ pc = "read"
    /\ Len(blocks) < MaxChainLen
    /\ LET b == ReadAt(file, roff) IN
       CASE b.kind = "ioerr" ->
              /\ result' = "IoFailure"
              /\ pc' = "done"
              /\ UNCHANGED <<roff, blocks>>
         [] b.kind = "badfmt" ->
              /\ result' = "FormatError"
              /\ pc' = "done"
              /\ UNCHANGED <<roff, blocks>>
         [] b.kind = "block" ->
              /\ blocks' = Append(blocks, [offset |-> roff, entries |-> b.entries,
                                           next |-> b.next])
              /\ IF b.next # 0
                 THEN roff' = b.next /\ pc' = "read"
                 ELSE roff' = roff /\ pc' = "scan"
              /\ result' = result
    /\ UNCHANGED <<file, offsets, chains, offset, manager, query, readers>>

\* Variant: only the first block of the chain is scanned for children.
ScanAndInsert_FirstBlockOnly ==
    /\ pc = "scan"
    /\ Len(offsets \o DirChildren(Head(blocks).entries)) <= MaxPending
    /\ offsets' = offsets \o DirChildren(Head(blocks).entries)
    /\ chains' = Insert(chains, offset, blocks)
    /\ pc' = "loop"
    /\ UNCHANGED <<file, offset, roff, blocks, result, manager, query, readers>>

\* Variant: the chain is inserted under the offset of its last block.
ScanAndInsert_UnderReadOffset ==
    /\ pc = "scan"
    /\ Len(offsets \o DirChildren(ChainEntries(blocks))) <= MaxPending
    /\ offsets' = offsets \o DirChildren(ChainEntries(blocks))
    /\ chains' = Insert(chains, roff, blocks)
    /\ pc' = "loop"
    /\ UNCHANGED <<file, offset, roff, blocks, result, manager, query, readers>>

\* lines 22-34: push the children of the chain just read, insert the chain
ScanAndInsert ==
    /\ pc = "scan"
    /\ Len(offsets \o DirChildren(ChainEntries(blocks))) <= MaxPending
    /\ offsets' = offsets \o DirChildren(ChainEntries(blocks))
    /\ chains' = Insert(chains, offset, blocks)
    /\ pc' = "loop"
    /\ UNCHANGED <<file, offset, roff, blocks, result, manager, query, readers>>

\* line 20, None, and line 36: the worklist is empty, return the index
Finish ==
    /\ pc = "loop"
    /\ offsets = <<>>
    /\ result' = "Ok"
    /\ manager' = <<chains>>
    /\ pc' = "done"
    /\ UNCHANGED <<file, offsets, chains, offset, roff, blocks, query, readers>>

BuildStep == PopOffset \/ ReadBlock \/ ScanAndInsert \/ Finish

-----------------------------------------------------------------------------
\* Path resolver calls on the returned BlockManager

Index == manager[1]
Built == pc = "done" /\ result = "Ok"

\* A reader with no call in progress.
Idle == Built /\ query = NoQuery

ResolveChainIndex ==
    /\ Idle
    /\ \E start \in DOMAIN Index, path \in ComponentPaths :
         query' = [op |-> "resolve_path_to_block_chain_index_at",
                   start |-> start, path |-> path,
                   res |-> resolve_path_to_block_chain_index_at(
                               Index, start, path)]
    /\ UNCHANGED <<file, pc, offsets, chains, offset, roff, blocks, result, manager, readers>>

ResolveEntryAndParent ==
    /\ Idle
    /\ \E start \in DOMAIN Index, path \in ComponentPaths :
         query' = [op |-> "resolve_path_to_entry_and_parent",
                   start |-> start, path |-> path,
                   res |-> resolve_path_to_entry_and_parent(
                               Index, start, path)]
    /\ UNCHANGED <<file, pc, offsets, chains, offset, roff, blocks, result, manager, readers>>

ValidateDirPathUntil ==
    /\ Idle
    /\ \E start \in DOMAIN Index, path \in ComponentPaths :
         query' = [op |-> "validate_dir_path_until",
                   start |-> start, path |-> path,
                   res |-> validate_dir_path_until(Index, start, path)]
    /\ UNCHANGED <<file, pc, offsets, chains, offset, roff, blocks, result, manager, readers>>

\* The caller is done with the result of its call and may call again.
ReleaseResult ==
    /\ Built
    /\ query # NoQuery
    /\ query' = NoQuery
    /\ UNCHANGED <<file, pc, offsets, chains, offset, roff, blocks, result, manager, readers>>

Next ==
    \/ PopOffset
    \/ ReadBlock
    \/ ScanAndInsert
    \/ Finish
    \/ ResolveChainIndex
    \/ ResolveEntryAndParent
    \/ ValidateDirPathUntil
    \/ ReleaseResult

Spec == Init /\ [][Next]_vars

\* new runs to completion once called; resolver calls are up to the callers.
FairSpec == Spec /\ WF_vars(BuildStep)

-----------------------------------------------------------------------------
\* Concurrent readers: the resolver methods run one component lookup at a
\* time, interleaved, on the shared &self.

ResolverOps ==
    { "resolve_path_to_block_chain_index_at",
      "resolve_path_to_entry_and_parent",
      "validate_dir_path_until" }

ReaderNames == {"a", ".."}
ReaderPaths == SeqsUpTo(ReaderNames, MaxReaderPathLen)

Returned(me, res) ==
    [phase |-> "done", op |-> me.op, start |-> me.start, path |-> me.path, res |-> res]

\* entry of a method: lines 69-70 and 79-81, line 90, lines 102-103
ReaderCall(r) ==
    /\ Built
    /\ readers[r].phase = "idle"
    /\ \E op \in ResolverOps, start \in DOMAIN Index, raw \in ReaderPaths :
         LET path == Components(raw)
             me == [op |-> op, start |-> start, path |-> path]
         IN readers' = [readers EXCEPT ![r] =
              IF op = "resolve_path_to_entry_and_parent" /\ path = <<>>
              THEN Returned(me, [tag |-> "Ok", value |-> <<>>, looked |-> {}])
              ELSE [phase |-> "walk", op |-> op, start |-> start, path |-> path,
                    chain |-> start,
                    rem |-> IF op = "resolve_path_to_entry_and_parent"
                            THEN Front(path) ELSE path,
                    n |-> 0, looked |-> {}]]
    /\ UNCHANGED <<file, pc, offsets, chains, offset, roff, blocks, result, manager, query>>

\* Variant: the chain being searched is taken out of the map while it is read.
ReaderLookup_TakesChainOut(r) ==
    /\ Built
    /\ readers[r].phase = "walk"
    /\ readers[r].rem # <<>>
    /\ LET me == readers[r] IN
       /\ readers' = [readers EXCEPT ![r] =
            IF me.chain \notin DOMAIN Index
            THEN Returned(me, Panic(me.looked \cup {me.chain}))
            ELSE LET f == find_block_chain_index_in(Index[me.chain], Head(me.rem),
                                                   me.looked \cup {me.chain})
                 IN IF f.tag = "Ok"
                    THEN [me EXCEPT !.chain = f.chain, !.rem = Tail(me.rem),
                                    !.n = me.n + 1, !.looked = f.looked]
                    ELSE IF me.op = "validate_dir_path_until" /\ f.kind = "NotFound"
                    THEN IF Head(me.rem) = ".."
                         THEN Returned(me, ErrOf("PermissionDenied", "..", f.looked))
                         ELSE Returned(me, [tag |-> "Ok", chain |-> me.chain,
                                            rest |-> TakeNext(me.path, me.n),
                                            looked |-> f.looked])
                    ELSE Returned(me, f)]
       /\ manager' = << [k \in DOMAIN Index \ {me.chain} |-> Index[k]] >>
    /\ UNCHANGED <<file, pc, offsets, chains, offset, roff, blocks, result, query>>

\* one component: the closure of line 91, or one iteration of lines 104-127
ReaderLookup(r) ==
    /\ Built
    /\ readers[r].phase = "walk"
    /\ readers[r].rem # <<>>
    /\ LET me == readers[r] IN
       readers' = [readers EXCEPT ![r] =
            IF me.chain \notin DOMAIN Index
            THEN Returned(me, Panic(me.looked \cup {me.chain}))
            ELSE LET f == find_block_chain_index_in(Index[me.chain], Head(me.rem),
                                                   me.looked \cup {me.chain})
                 IN IF f.tag = "Ok"
                    THEN [me EXCEPT !.chain = f.chain, !.rem = Tail(me.rem),
                                    !.n = me.n + 1, !.looked = f.looked]
                    ELSE IF me.op = "validate_dir_path_until" /\ f.kind = "NotFound"
                    THEN IF Head(me.rem) = ".."
                         THEN Returned(me, ErrOf("PermissionDenied", "..", f.looked))
                         ELSE Returned(me, [tag |-> "Ok", chain |-> me.chain,
                                            rest |-> TakeNext(me.path, me.n),
                                            looked |-> f.looked])
                    ELSE Returned(me, f)]
    /\ UNCHANGED <<file, pc, offsets, chains, offset, roff, blocks, result, manager, query>>

\* the components are used up: the end of try_fold (line 92), lines 72-78,
\* lines 128-131
ReaderFinish(r) ==
    /\ Built
    /\ readers[r].phase = "walk"
    /\ readers[r].rem = <<>>
    /\ LET me == readers[r] IN
       readers' = [readers EXCEPT ![r] =
            CASE me.op = "resolve_path_to_block_chain_index_at" ->
                   Returned(me, OkChain(me.chain, me.looked))
              [] me.op = "validate_dir_path_until" ->
                   Returned(me, [tag |-> "Ok", chain |-> me.chain,
                                 rest |-> TakeNext(me.path, me.n),
                                 looked |-> me.looked])
              [] me.op = "resolve_path_to_entry_and_parent" ->
                   IF me.chain \notin DOMAIN Index
                   THEN Returned(me, Panic(me.looked \cup {me.chain}))
                   ELSE LET es == ChainEntries(Index[me.chain])
                            i == FindNamed(es, Last(me.path))
                            l == me.looked \cup {me.chain}
                        IN IF i = 0
                           THEN Returned(me, ErrOf("NotFound", Last(me.path), l))
                           ELSE Returned(me,
                                  [tag |-> "Ok",
                                   value |-> << [parent |-> Index[me.chain],
                                                 entry |-> es[i]] >>,
                                   looked |-> l])]
    /\ UNCHANGED <<file, pc, offsets, chains, offset, roff, blocks, result, manager, query>>

\* The reader is done with the result of its call and may call again.
ReaderRelease(r) ==
    /\ Built
    /\ readers[r].phase = "done"
    /\ readers' = [readers EXCEPT ![r] = IdleReader]
    /\ UNCHANGED <<file, pc, offsets, chains, offset, roff, blocks, result, manager, query>>

\* The archive the concurrent readers share.
InitReaders == Init /\ file = BaseArchive

NextReaders ==
    \/ PopOffset
    \/ ReadBlock
    \/ ScanAndInsert
    \/ Finish
    \/ \E r \in Readers : ReaderCall(r)
    \/ \E r \in Readers : ReaderLookup(r)
    \/ \E r \in Readers : ReaderFinish(r)
    \/ \E r \in Readers : ReaderRelease(r)

SpecReaders == InitReaders /\ [][NextReaders]_vars

\* The traversal with the worklist discipline left open: line 20 takes any
\* pending offset instead of the last one.
PopAny ==
    /\ pc = "loop"
    /\ \E i \in 1..Len(offsets) :
         /\ offset' = offsets[i]
         /\ roff' = offsets[i]
         /\ offsets' = SubSeq(offsets, 1, i - 1) \o SubSeq(offsets, i + 1, Len(offsets))
    /\ blocks' = <<>>
    /\ pc' = "read"
    /\ UNCHANGED <<file, chains, result, manager, query, readers>>

NextAnyOrder == PopAny \/ ReadBlock \/ ScanAndInsert \/ Finish

SpecAnyOrder == Init /\ [][NextAnyOrder]_vars

-----------------------------------------------------------------------------
\* Vocabulary of the properties

\* The model stops a run that outgrows its bounds.
Capped ==
    \/ pc = "read" /\ Len(blocks) >= MaxChainLen
    \/ pc = "scan" /\ Len(offsets \o DirChildren(ChainEntries(blocks))) > MaxPending

HasName(e, n) == e.type # "Empty" /\ e.name = n

\* Slot i holds the first entry named n.
IsFirstNamed(es, n, i) ==
    /\ i \in 1..Len(es)
    /\ HasName(es[i], n)
    /\ \A j \in 1..(i - 1) : ~HasName(es[j], n)

EntriesAt(index, c) == ChainEntries(index[c])

\* Chain c is in the index and has no entry named n.
NoEntryNamed(index, c, n) ==
    /\ c \in DOMAIN index
    /\ \A i \in 1..Len(EntriesAt(index, c)) : ~HasName(EntriesAt(index, c)[i], n)

\* Chain c is in the index and n names a File there.
NamesFile(index, c, n) ==
    /\ c \in DOMAIN index
    /\ \E i \in 1..Len(EntriesAt(index, c)) :
         /\ IsFirstNamed(EntriesAt(index, c), n, i)
         /\ EntriesAt(index, c)[i].type = "File"

\* The chains the Directory entry named n of chain c leads to (none or one).
DirStep(index, c, n) ==
    IF c \notin DOMAIN index THEN {}
    ELSE { EntriesAt(index, c)[i].pos_children :
             i \in { j \in 1..Len(EntriesAt(index, c)) :
                       /\ IsFirstNamed(EntriesAt(index, c), n, j)
                       /\ EntriesAt(index, c)[j].type = "Directory" } }

\* The chain reached from start when the first k components each name a
\* Directory entry (none when one of them does not).
RECURSIVE Reached(_, _, _, _)
Reached(index, start, comps, k) ==
    IF k = 0 THEN {start}
    ELSE UNION { DirStep(index, p, comps[k]) : p \in Reached(index, start, comps, k - 1) }

IsCall(op) == Built /\ query.op = op

-----------------------------------------------------------------------------
\* C1: for every start chain and every path whose first k components resolve
\* to Directory entries and whose component k+1 is not found and is not "..",
\* validate_dir_path_until returns Ok with the chain reached after the k
\* components and exactly the suffix of the path starting at component k+1.
C1_RemainderIsUnresolvedSuffix ==
    IsCall("validate_dir_path_until") =>
      \A k \in 0..(Len(query.path) - 1) :
        \A c \in Reached(Index, query.start, query.path, k) :
          (NoEntryNamed(Index, c, query.path[k + 1]) /\ query.path[k + 1] # "..")
          => /\ query.res.tag = "Ok"
             /\ query.res.chain = c
             /\ query.res.rest = SubSeq(query.path, k + 1, Len(query.path))

\* C2: after a successful build every Directory entry not named "." or "..",
\* in any block of any chain of the index, has its child chain in the index.
C2_ChildrenAreKeys ==
    Built =>
      \A c \in DOMAIN Index :
        \A b \in 1..Len(Index[c]) :
          \A i \in 1..Len(Index[c][b].entries) :
            LET e == Index[c][b].entries[i] IN
            (e.type = "Directory" /\ e.name \notin {".", ".."})
              => e.pos_children \in DOMAIN Index

\* a built index with a subdirectory listed in a second block of a chain
C2_Witness ==
    /\ Built
    /\ \E c \in DOMAIN Index :
         /\ Len(Index[c]) >= 2
         /\ \E i \in 1..Len(Index[c][2].entries) :
              /\ Index[c][2].entries[i].type = "Directory"
              /\ Index[c][2].entries[i].name \notin {".", ".."}

\* The entries of the chain the file holds at offset o, following the
\* continuation pointers (fuel bounds a cyclic chain).
RECURSIVE FileChainEntries(_, _, _)
FileChainEntries(f, o, fuel) ==
    IF fuel = 0 \/ o \notin DOMAIN f THEN <<>>
    ELSE IF f[o].kind # "block" THEN <<>>
    ELSE f[o].entries \o
         (IF f[o].next = 0 THEN <<>> ELSE FileChainEntries(f, f[o].next, fuel - 1))

FileChildren(f, o) ==
    LET es == FileChainEntries(f, o, Cardinality(DOMAIN f))
    IN { es[i].pos_children :
           i \in { j \in 1..Len(es) :
                     es[j].type = "Directory" /\ es[j].name \notin {".", ".."} } }

\* The directory chains of the file reachable from the root.
RECURSIVE Closure(_, _)
Closure(f, S) ==
    LET T == S \cup UNION { FileChildren(f, o) : o \in S }
    IN IF T = S THEN S ELSE Closure(f, T)

ReachableChains(f) == Closure(f, {PK2_ROOT_BLOCK})

\* C3: new is all-or-nothing: it returns an index holding the root chain and
\* every directory chain reachable from it, or an IoFailure/FormatError and
\* no index, also when chains had been inserted before the failure.
C3_AllOrNothing ==
    /\ pc # "done" => (result = "Pending" /\ manager = <<>>)
    /\ pc = "done" =>
         \/ /\ result = "Ok"
            /\ manager = <<chains>>
            /\ ReachableChains(file) \subseteq DOMAIN Index
         \/ /\ result \in {"IoFailure", "FormatError"}
            /\ manager = <<>>

\* a read failed after chains had been inserted
C3_Witness ==
    /\ pc = "done"
    /\ result \in {"IoFailure", "FormatError"}
    /\ DOMAIN chains # {}
    /\ manager = <<>>

\* C4: new terminates on every archive with finitely many blocks (runs that
\* outgrow the bounds of the model are not counted against the claim).
C4_BuildTerminates == <>(pc = "done" \/ Capped)

\* C5: for a non-empty path whose prefix resolves and whose last component
\* names an entry of the resulting chain, resolve_path_to_entry_and_parent
\* returns that chain and the first entry, in block and slot order, with that
\* name, be it a File or a Directory.
C5_EntryAndParent ==
    (IsCall("resolve_path_to_entry_and_parent") /\ query.path # <<>>) =>
      \A p \in Reached(Index, query.start, query.path, Len(query.path) - 1) :
        p \in DOMAIN Index =>
          \A i \in 1..Len(EntriesAt(Index, p)) :
            IsFirstNamed(EntriesAt(Index, p), Last(query.path), i)
            => /\ query.res.tag = "Ok"
               /\ query.res.value =
                    << [parent |-> Index[p], entry |-> EntriesAt(Index, p)[i]] >>

\* root -> a -> b -> file: a three-component path ending at a File entry
C5_Witness ==
    /\ IsCall("resolve_path_to_entry_and_parent")
    /\ Len(query.path) = MaxPathLen
    /\ query.res.tag = "Ok"
    /\ query.res.value # <<>>
    /\ query.res.value[1].entry.type = "File"
    /\ query.res.value[1].parent # Index[query.start]

\* C6: resolve_path_to_block_chain_index_at is the fold of the components
\* from start through the child identifiers of the Directory entries they
\* name; it fails with NotFound(name) at the first component naming no entry
\* of the current chain; an empty path returns start.
C6_ResolveIsFold ==
    IsCall("resolve_path_to_block_chain_index_at") =>
      /\ query.path = <<>> => (query.res.tag = "Ok" /\ query.res.chain = query.start)
      /\ \A c \in Reached(Index, query.start, query.path, Len(query.path)) :
           query.res.tag = "Ok" /\ query.res.chain = c
      /\ query.res.tag = "Ok" =>
           query.res.chain \in Reached(Index, query.start, query.path, Len(query.path))
      /\ \A k \in 0..(Len(query.path) - 1) :
           \A c \in Reached(Index, query.start, query.path, k) :
             NoEntryNamed(Index, c, query.path[k + 1])
             => /\ query.res.tag = "Err"
                /\ query.res.kind = "NotFound"
                /\ query.res.name = query.path[k + 1]

\* a path of several components resolved to a chain other than start
C6_Witness ==
    /\ IsCall("resolve_path_to_block_chain_index_at")
    /\ Len(query.path) = MaxPathLen
    /\ "." \notin { query.path[i] : i \in 1..Len(query.path) }
    /\ query.res.tag = "Ok"
    /\ query.res.chain # query.start

\* C7: a component naming a File where a Directory is needed fails with
\* NotADirectory, not NotFound, in resolve_path_to_block_chain_index_at and
\* in validate_dir_path_until, which never turns it into Ok with a remainder.
C7_FileInPathIsNotADirectory ==
    (IsCall("resolve_path_to_block_chain_index_at") \/ IsCall("validate_dir_path_until")) =>
      \A k \in 0..(Len(query.path) - 1) :
        \A c \in Reached(Index, query.start, query.path, k) :
          NamesFile(Index, c, query.path[k + 1])
          => /\ query.res.tag = "Err"
             /\ query.res.kind = "NotADirectory"
             /\ query.res.name = query.path[k + 1]

\* validate_dir_path_until met a File after a resolved component and before
\* the last one
C7_Witness ==
    /\ IsCall("validate_dir_path_until")
    /\ query.res.tag = "Err"
    /\ query.res.kind = "NotADirectory"
    /\ \E k \in 1..(Len(query.path) - 2) :
         \E c \in Reached(Index, query.start, query.path, k) :
           NamesFile(Index, c, query.path[k + 1])

\* C8: validate_dir_path_until fails with PermissionDenied (BoundaryDenied)
\* exactly when the first component that is not found is "..", wherever in
\* the path it stands; a first unresolved component other than ".." never does.
C8_BoundaryDenied ==
    IsCall("validate_dir_path_until") =>
      /\ \A k \in 0..(Len(query.path) - 1) :
           \A c \in Reached(Index, query.start, query.path, k) :
             NoEntryNamed(Index, c, query.path[k + 1])
             => IF query.path[k + 1] = ".."
                THEN query.res.tag = "Err" /\ query.res.kind = "PermissionDenied"
                ELSE query.res.tag = "Ok"
      /\ (query.res.tag = "Err" /\ query.res.kind = "PermissionDenied") =>
           \E k \in 0..(Len(query.path) - 1) :
             \E c \in Reached(Index, query.start, query.path, k) :
               NoEntryNamed(Index, c, query.path[k + 1]) /\ query.path[k + 1] = ".."

\* ".." refused after components that resolved
C8_Witness ==
    /\ IsCall("validate_dir_path_until")
    /\ query.res.tag = "Err"
    /\ query.res.kind = "PermissionDenied"
    /\ Len(query.path) >= 2
    /\ query.path[1] \notin {".", ".."}

\* C9: resolve_path_to_entry_and_parent fails with NotFound(leaf) when the
\* prefix resolves to a chain without an entry of that name; when the prefix
\* fails to resolve, the error of the failing component is returned.
C9_EntryNotFound ==
    (IsCall("resolve_path_to_entry_and_parent") /\ query.path # <<>>) =>
      /\ \A p \in Reached(Index, query.start, query.path, Len(query.path) - 1) :
           NoEntryNamed(Index, p, Last(query.path))
           => /\ query.res.tag = "Err"
              /\ query.res.kind = "NotFound"
              /\ query.res.name = Last(query.path)
      /\ \A k \in 0..(Len(query.path) - 2) :
           \A c \in Reached(Index, query.start, query.path, k) :
             /\ NoEntryNamed(Index, c, query.path[k + 1])
                => /\ query.res.tag = "Err"
                   /\ query.res.kind = "NotFound"
                   /\ query.res.name = query.path[k + 1]
             /\ NamesFile(Index, c, query.path[k + 1])
                => /\ query.res.tag = "Err"
                   /\ query.res.kind = "NotADirectory"
                   /\ query.res.name = query.path[k + 1]

\* "a/missing": the prefix resolved, the leaf is not there
C9_Witness ==
    /\ IsCall("resolve_path_to_entry_and_parent")
    /\ Len(query.path) >= 2
    /\ query.path[1] \notin {".", ".."}
    /\ \E p \in Reached(Index, query.start, query.path, Len(query.path) - 1) :
         NoEntryNamed(Index, p, Last(query.path))
    /\ query.res.tag = "Err"
    /\ query.res.kind = "NotFound"

\* C10: for every start in the index, resolve_path_to_entry_and_parent of the
\* empty path returns Ok(None) without indexing any chain.
C10_EmptyPathIsNone ==
    (IsCall("resolve_path_to_entry_and_parent") /\ query.path = <<>>) =>
      /\ query.start \in DOMAIN Index
      /\ query.res.tag = "Ok"
      /\ query.res.value = <<>>
      /\ query.res.looked = {}

\* the empty path asked at a chain other than the root
C10_Witness ==
    /\ IsCall("resolve_path_to_entry_and_parent")
    /\ query.path = <<>>
    /\ query.start # PK2_ROOT_BLOCK
    /\ query.res.tag = "Ok"

\* The offsets of the blocks of the chain the file holds at o, in reading
\* order, up to and including a block that cannot be read or parsed.
RECURSIVE FileChainSeq(_, _, _)
FileChainSeq(f, o, fuel) ==
    IF fuel = 0 THEN <<>>
    ELSE IF ReadAt(f, o).kind # "block" THEN <<o>>
    ELSE IF f[o].next = 0 THEN <<o>>
    ELSE <<o>> \o FileChainSeq(f, f[o].next, fuel - 1)

FileChainOf(f, o) == FileChainSeq(f, o, Cardinality(DOMAIN f) + 1)

Failures == {"IoFailure", "FormatError"}

\* C11: whenever new succeeds PK2_ROOT_BLOCK is a key of the index, and new
\* does not succeed when a block of the root chain cannot be read or parsed.
C11_RootIsKey ==
    Built =>
      /\ PK2_ROOT_BLOCK \in DOMAIN Index
      /\ \A i \in 1..Len(FileChainOf(file, PK2_ROOT_BLOCK)) :
           ReadAt(file, FileChainOf(file, PK2_ROOT_BLOCK)[i]).kind = "block"

\* a built index whose root chain spans several blocks
C11_Witness ==
    /\ Built
    /\ PK2_ROOT_BLOCK \in DOMAIN Index
    /\ Len(Index[PK2_ROOT_BLOCK]) >= 2

\* C13: the chain stored under o is the blocks read at o and then along the
\* continuation pointers, in that order, up to the first block without one;
\* children are discovered in every block of the chain.
C13_ChainFollowsContinuation ==
    Built =>
      \A c \in DOMAIN Index :
        LET seq == FileChainOf(file, c) IN
        /\ Len(Index[c]) = Len(seq)
        /\ \A i \in 1..Len(seq) :
             /\ Index[c][i].offset = seq[i]
             /\ ReadAt(file, seq[i]).kind = "block"
             /\ Index[c][i].entries = file[seq[i]].entries
             /\ (file[seq[i]].next = 0) <=> (i = Len(seq))
             /\ \A j \in 1..Len(Index[c][i].entries) :
                  LET e == Index[c][i].entries[j] IN
                  (e.type = "Directory" /\ e.name \notin {".", ".."})
                    => e.pos_children \in DOMAIN Index

\* a subdirectory listed in the second block only, and indexed
C13_Witness ==
    /\ Built
    /\ \E c \in DOMAIN Index :
         /\ Len(Index[c]) >= 2
         /\ \E j \in 1..Len(Index[c][2].entries) :
              LET e == Index[c][2].entries[j] IN
              /\ e.type = "Directory"
              /\ e.name \notin {".", ".."}
              /\ e.pos_children \in DOMAIN Index
              /\ e.pos_children \notin
                   { x \in DOMAIN Index :
                       \E k \in 1..Len(Index[c][1].entries) :
                         /\ Index[c][1].entries[k].type = "Directory"
                         /\ Index[c][1].entries[k].pos_children = x }

\* The child identifiers of the Directory entries, other than "." and "..",
\* of the chains of an index.
IndexedChildren(index) ==
    UNION { { ChainEntries(index[c])[j].pos_children :
                j \in { k \in 1..Len(ChainEntries(index[c])) :
                          /\ ChainEntries(index[c])[k].type = "Directory"
                          /\ ChainEntries(index[c])[k].name \notin {".", ".."} } } :
            c \in DOMAIN index }

\* C14: every chain is stored under the offset popped for it, so the keys are
\* the root and the children of the indexed Directory entries not named "."
\* or ".."; the offset of a continuation block is a key only as such a child.
C14_KeysAreOriginatingOffsets ==
    Built =>
      /\ DOMAIN Index = {PK2_ROOT_BLOCK} \cup IndexedChildren(Index)
      /\ DOMAIN Index = ReachableChains(file)
      /\ \A c \in DOMAIN Index : Index[c][1].offset = c

\* a continuation block whose offset is not a key
C14_Witness ==
    /\ Built
    /\ \E c \in DOMAIN Index :
         /\ Len(Index[c]) >= 2
         /\ Index[c][2].offset \notin DOMAIN Index

\* C15: the first seek, read or parse failure ends new at once: the failing
\* step returns, and afterwards nothing is read, popped, inserted or retried.
C15_FailureIsFinal ==
    /\ [](result \in Failures => (pc = "done" /\ ~ENABLED BuildStep))
    /\ [][ /\ (pc = "read" /\ ReadAt(file, roff).kind # "block")
              => (pc' = "done" /\ result' \in Failures)
           /\ (result' \in Failures)
              => UNCHANGED <<offsets, chains, offset, roff, blocks, manager>>
           /\ (result \in Failures) => (result' = result /\ pc' = pc) ]_vars

\* a failure with offsets still pending and chains already inserted
C15_Witness ==
    /\ result \in Failures
    /\ offsets # <<>>
    /\ DOMAIN chains # {}
    /\ blocks # <<>>

\* C17: the status the cipher returns is discarded: a block is parsed and
\* appended whatever that status is, a decryption error is never what new
\* returns, and new fails only where a seek, a read or a parse fails.
C17_DecryptStatusIgnored ==
    /\ [](result \in Failures =>
            ReadAt(file, roff).kind = (IF result = "IoFailure" THEN "ioerr" ELSE "badfmt"))
    /\ [][ (pc = "read" /\ ReadAt(file, roff).kind = "block")
           => /\ result' = "Pending"
              /\ blocks' = Append(blocks, [offset |-> roff,
                                           entries |-> file[roff].entries,
                                           next |-> file[roff].next]) ]_vars

\* new succeeded although the cipher reported an error for an indexed block
C17_Witness ==
    /\ Built
    /\ \E c \in DOMAIN Index :
         \E i \in 1..Len(Index[c]) : file[Index[c][i].offset].cipher = "Err"

\* C18: when resolve_path_to_block_chain_index_at(start, path) returns Ok(c),
\* validate_dir_path_until(start, path) returns Ok((c, empty remainder)).
C18_ValidateAgreesWithResolve ==
    IsCall("validate_dir_path_until") =>
      LET r == resolve_path_to_block_chain_index_at(Index, query.start, query.path) IN
      r.tag = "Ok" => /\ query.res.tag = "Ok"
                      /\ query.res.chain = r.chain
                      /\ query.res.rest = <<>>

\* C19: on the index of a successful build, every chain identifier a resolver
\* call looks up is a key of the index (no call hits a missing chain), and
\* every identifier the two chain-returning calls return is a key.
C19_LookupsAreKeys ==
    (Built /\ query # NoQuery) =>
      /\ query.res.tag # "Panic"
      /\ query.res.looked \subseteq DOMAIN Index
      /\ (query.op # "resolve_path_to_entry_and_parent" /\ query.res.tag = "Ok")
           => query.res.chain \in DOMAIN Index

\* The chain the file holds at o, as read_chain_from_file_at returns it.
FileChainBlocks(f, o) ==
    [i \in 1..Len(FileChainOf(f, o)) |->
        [offset |-> FileChainOf(f, o)[i],
         entries |-> f[FileChainOf(f, o)[i]].entries,
         next |-> f[FileChainOf(f, o)[i]].next]]

\* The index as a function of the file alone.
FileIndex(f) == [c \in ReachableChains(f) |-> FileChainBlocks(f, c)]

\* C16: the index a successful build returns is the same whatever the order
\* in which pending offsets are taken, and processing an offset that is
\* already a key re-inserts an equal chain and leaves the mapping unchanged.
C16_OrderIndependent ==
    /\ [](Built => Index = FileIndex(file))
    /\ [][ (pc = "scan" /\ offset \in DOMAIN chains) => chains' = chains ]_vars

\* an offset pushed twice is being processed for the second time
C16_Witness ==
    /\ pc = "scan"
    /\ result = "Pending"
    /\ offset \in DOMAIN chains
    /\ chains[offset] = blocks

\* The result of a call made alone on an index.
AloneResult(op, index, start, path) ==
    CASE op = "resolve_path_to_block_chain_index_at" ->
           resolve_path_to_block_chain_index_at(index, start, path)
      [] op = "resolve_path_to_entry_and_parent" ->
           resolve_path_to_entry_and_parent(index, start, path)
      [] op = "validate_dir_path_until" ->
           validate_dir_path_until(index, start, path)

\* C12: no resolver method changes the index: after any interleaving of the
\* readers' calls the map is the one new returned, and every call returns
\* what it returns when run alone.
C12_ReadersLeaveIndexAlone ==
    /\ [][Built => (manager' = manager /\ chains' = chains /\ file' = file)]_vars
    /\ [](Built => (manager = <<chains>> /\ Index = FileIndex(file)))
    /\ [](\A r \in Readers :
            readers[r].phase = "done"
            => readers[r].res = AloneResult(readers[r].op, FileIndex(file),
                                            readers[r].start, readers[r].path))

\* one reader has returned from a call of several components while the
\* other is in the middle of its own
C12_Witness ==
    /\ Built
    /\ \E r1 \in Readers, r2 \in Readers :
         /\ readers[r1].phase = "done"
         /\ Len(readers[r1].path) >= 2
         /\ readers[r1].res.tag = "Ok"
         /\ readers[r2].phase = "walk"
         /\ readers[r2].n >= 1
         /\ readers[r2].rem # <<>>

====
